---- MODULE Spec2Model ----
(***************************************************************************)
(* GraniteMoeHybrid (modular_granitemoehybrid.py): the multi-head latent   *)
(* attention block, the decoder layer and the model stack.                 *)
(*                                                                         *)
(* A tensor of shape (batch, sequence, width) is a record                  *)
(*   [batch, width, data]  with  Len(data) = sequence;                     *)
(* data[i] is the symbolic content of position i.  Linear maps act on the  *)
(* last axis only: they change the width and keep the per-position         *)
(* content.  Python's None is a record with given = FALSE.                 *)
(***************************************************************************)
EXTENDS Integers, Sequences, FiniteSets, TLC

VARIABLES config, training, cache, last, model, lastLayer

vars == <<config, training, cache, last, model, lastLayer>>

(***************************** bounds **************************************)
MaxChunk == 2       \* longest hidden-state sequence fed in one call
MaxCacheLen == 3    \* most positions the cache holds, all layers together
MaxBatch == 2       \* largest batch size
MaxLayers == 2      \* largest num_hidden_layers

TokenVals == {1, 2}

(***************************** tensors *************************************)
EmptyTensor == [batch |-> 0, width |-> 0, data |-> <<>>]

NoMask == [given |-> FALSE, rows |-> 0, cols |-> 0, allowed |-> {}]

Shape(x) == <<x.batch, Len(x.data), x.width>>

RECURSIVE Gcd(_, _)
Gcd(a, b) == IF b = 0 THEN a ELSE Gcd(b, a % b)

RECURSIVE GcdOf(_)
GcdOf(S) == IF S = {} THEN 0
            ELSE LET n == CHOOSE n \in S : TRUE IN Gcd(n, GcdOf(S \ {n}))

\* torch.nn.Linear(in_features, out_features): defined on the last axis.
LinearOk(in_features, x) == x.width = in_features

Linear(out_features, x) == [x EXCEPT !.width = out_features]

(******************** GraniteMultiHeadLatentAttention **********************)
\* a down-projection one key/value latent short
DownFeatures_OneLatent(cfg) == cfg.mla_query_comp_size + cfg.mla_key_value_comp_size

\* line 55: out_features of c_attn_down_projection
DownFeatures(cfg) == cfg.mla_query_comp_size + 2 * cfg.mla_key_value_comp_size

\* __init__: the attributes the block keeps.
MLA_init(cfg, layer_idx) ==
    [causal |-> TRUE,
     hidden_size |-> cfg.hidden_size,
     num_heads |-> cfg.num_attention_heads,
     query_compression_size |-> cfg.mla_query_comp_size,
     key_value_compression_size |-> cfg.mla_key_value_comp_size,
     head_dim |-> cfg.hidden_size \div cfg.num_attention_heads,
     attention_multiplier |-> cfg.attention_multiplier,
     layer_idx |-> layer_idx,
     down_features |-> DownFeatures(cfg),
     softmax_dropout_p |-> cfg.mla_softmax_dropout,
     dropout_is_identity |-> (cfg.mla_dropout = 0),
     dropout_p |-> cfg.mla_dropout]

\* _get_softmax_scale: the multiplier, or None (the kernel's default).
GetSoftmaxScale(self) ==
    IF ~self.attention_multiplier.given
    THEN [given |-> FALSE, v |-> 0]
    ELSE self.attention_multiplier

\* hidden_states.split((q, kv, kv), dim=-1): the three widths.
SplitSizes(self) ==
    <<self.query_compression_size,
      self.key_value_compression_size,
      self.key_value_compression_size>>

SplitOk(self, x) ==
    x.width = SplitSizes(self)[1] + SplitSizes(self)[2] + SplitSizes(self)[3]

SplitPart(self, x, i) ==
    [batch |-> x.batch,
     width |-> SplitSizes(self)[i],
     data |-> [p \in 1 .. Len(x.data) |->
                 [part |-> <<"query", "key", "value">>[i], tok |-> x.data[p]]]]

\* DynamicCache.update(key, value, layer_idx): concatenation on the sequence
\* axis of the entry of layer_idx; the other entries are left alone.
CatOk(old, new) ==
    \/ old.data = <<>>
    \/ old.batch = new.batch /\ old.width = new.width

Cat(old, new) ==
    IF old.data = <<>> THEN new ELSE [old EXCEPT !.data = old.data \o new.data]

DynamicCache_update(past, key, value, layer_idx) ==
    [past EXCEPT ![layer_idx] =
        [key |-> Cat(past[layer_idx].key, key),
         value |-> Cat(past[layer_idx].value, value)]]

\* an update keyed by layer 0 whatever the block
CacheAfterUpdate_Layer0(self, past, key, value) ==
    DynamicCache_update(past, key, value, 0)

\* line 83: the block's own use of the cache.
CacheAfterUpdate(self, past, key, value) ==
    DynamicCache_update(past, key, value, self.layer_idx)

KeyAfterUpdate(self, past) == past[self.layer_idx].key

ValueAfterUpdate(self, past) == past[self.layer_idx].value

\* x.view(batch, length, num_heads, -1).transpose(1, 2)
ViewOk(num_heads, x) == x.width % num_heads = 0

View(num_heads, x) ==
    [batch |-> x.batch, heads |-> num_heads, head_width |-> x.width \div num_heads,
     data |-> x.data]

\* arguments of the kernel call, lines 97-105
KernelMask(self, attention_mask) == attention_mask

\* softmax dropout that ignores the training flag
KernelDropoutP_Always(self, is_training) == self.softmax_dropout_p

KernelDropoutP(self, is_training) ==
    IF is_training THEN self.softmax_dropout_p ELSE 0

\* implicit causality whatever the mask
KernelIsCausal_Always(self, attention_mask) == self.causal

KernelIsCausal(self, attention_mask) ==
    IF ~attention_mask.given THEN self.causal ELSE FALSE

\* F.scaled_dot_product_attention.  With is_causal the kernel masks with
\* ones(L, S).tril(diagonal=0): query row i sees key columns 1 .. i.  An
\* explicit mask is broadcast from (rows, cols) to (L, S).
SdpaOk(query, key, value, attn_mask, is_causal) ==
    /\ query.batch = key.batch /\ key.batch = value.batch
    /\ query.heads = key.heads /\ key.heads = value.heads
    /\ query.head_width = key.head_width
    /\ Len(key.data) = Len(value.data)
    /\ ~(is_causal /\ attn_mask.given)
    /\ attn_mask.given =>
          /\ attn_mask.rows \in {1, Len(query.data)}
          /\ attn_mask.cols \in {1, Len(key.data)}

SdpaVisible(L, S, attn_mask, is_causal) ==
    [i \in 1 .. L |->
        {j \in 1 .. S :
            /\ is_causal => j <= i
            /\ attn_mask.given =>
                  <<(IF attn_mask.rows = 1 THEN 1 ELSE i),
                    (IF attn_mask.cols = 1 THEN 1 ELSE j)>> \in attn_mask.allowed}]

\* The softmax-weighted mean over the visible keys depends on the visible
\* (key, value) pairs up to a uniform replication of all of them.
Attended(key, value, J) ==
    LET pairs == {<<key.data[j], value.data[j]>> : j \in J}
        count(p) == Cardinality({j \in J : <<key.data[j], value.data[j]>> = p})
        g == GcdOf({count(p) : p \in pairs})
    IN  [p \in pairs |-> count(p) \div g]

Sdpa(query, key, value, attn_mask, dropout_p, is_causal, noise) ==
    LET vis == SdpaVisible(Len(query.data), Len(key.data), attn_mask, is_causal)
    IN  [batch |-> query.batch, heads |-> query.heads,
         head_width |-> value.head_width,
         data |-> [i \in 1 .. Len(query.data) |->
                     [q |-> query.data[i],
                      seen |-> Attended(key, value, vis[i]),
                      sdrop |-> IF dropout_p = 0 THEN 0 ELSE noise,
                      odrop |-> 0]]]

\* hidden_states.transpose(1, 2).reshape(batch, -1, num_heads * head_dim)
\* (the views succeeded, so head_width = head_dim and the inferred axis is
\* the query length)
ReshapeOk(self, a) ==
    /\ self.num_heads * self.head_dim > 0
    /\ (Len(a.data) * a.heads * a.head_width) % (self.num_heads * self.head_dim) = 0

Reshape(self, a) ==
    [batch |-> a.batch, width |-> self.num_heads * self.head_dim, data |-> a.data]

\* self.dropout: nn.Identity when mla_dropout is 0, else nn.Dropout, which
\* acts in training mode only.
OutputDropout(self, is_training, x, noise) ==
    IF self.dropout_is_identity \/ ~is_training
    THEN x
    ELSE [x EXCEPT !.data = [i \in 1 .. Len(x.data) |->
                                [x.data[i] EXCEPT !.odrop = noise]]]

NoKernel ==
    [called |-> FALSE, L |-> 0, S |-> 0, mask |-> NoMask, is_causal |-> FALSE,
     dropout_p |-> 0, scale |-> [given |-> FALSE, v |-> 0],
     visible |-> <<>>]

NoWidths == [down |-> 0, latents |-> <<0, 0, 0>>, up |-> <<0, 0, 0>>]

Failed(where, past, updates, kernel, widths) ==
    [status |-> where, out |-> EmptyTensor, past |-> past,
     updates |-> updates, kernel |-> kernel, widths |-> widths]

\* forward(hidden_states, past_key_values, attention_mask).  use_past says
\* whether past_key_values is an object (TRUE) or None (FALSE).
MLA_forward(self, is_training, hidden_states, past, use_past, attention_mask, snoise, onoise) ==
    IF ~LinearOk(self.hidden_size, hidden_states)
    THEN Failed("linear", past, 0, NoKernel, NoWidths)
    ELSE
    LET down == Linear(self.down_features, hidden_states) IN
    IF ~SplitOk(self, down)
    THEN Failed("split", past, 0, NoKernel, [NoWidths EXCEPT !.down = down.width])
    ELSE
    LET q0 == SplitPart(self, down, 1)
        k0 == SplitPart(self, down, 2)
        v0 == SplitPart(self, down, 3)
        w0 == [NoWidths EXCEPT !.down = down.width,
                               !.latents = <<q0.width, k0.width, v0.width>>]
    IN
    IF use_past /\ ~(CatOk(past[self.layer_idx].key, k0)
                     /\ CatOk(past[self.layer_idx].value, v0))
    THEN Failed("cat", past, 1, NoKernel, w0)
    ELSE
    LET past1 == IF use_past THEN CacheAfterUpdate(self, past, k0, v0) ELSE past
        upd == IF use_past THEN 1 ELSE 0
        k1 == IF use_past THEN KeyAfterUpdate(self, past1) ELSE k0
        v1 == IF use_past THEN ValueAfterUpdate(self, past1) ELSE v0
    IN
    IF ~(LinearOk(self.query_compression_size, q0)
         /\ LinearOk(self.key_value_compression_size, k1)
         /\ LinearOk(self.key_value_compression_size, v1))
    THEN Failed("linear", past1, upd, NoKernel, w0)
    ELSE
    LET query == Linear(self.hidden_size, q0)
        key == Linear(self.hidden_size, k1)
        value == Linear(self.hidden_size, v1)
        w1 == [w0 EXCEPT !.up = <<query.width, key.width, value.width>>]
    IN
    IF ~(ViewOk(self.num_heads, query) /\ ViewOk(self.num_heads, key)
         /\ ViewOk(self.num_heads, value))
    THEN Failed("view", past1, upd, NoKernel, w1)
    ELSE
    LET qh == View(self.num_heads, query)
        kh == View(self.num_heads, key)
        vh == View(self.num_heads, value)
        mask == KernelMask(self, attention_mask)
        p == KernelDropoutP(self, is_training)
        causal == KernelIsCausal(self, attention_mask)
        kernel == [called |-> TRUE, L |-> Len(qh.data), S |-> Len(kh.data),
                   mask |-> mask, is_causal |-> causal, dropout_p |-> p,
                   scale |-> GetSoftmaxScale(self),
                   visible |-> SdpaVisible(Len(qh.data), Len(kh.data), mask, causal)]
    IN
    IF ~SdpaOk(qh, kh, vh, mask, causal)
    THEN Failed("sdpa", past1, upd, kernel, w1)
    ELSE
    LET a == Sdpa(qh, kh, vh, mask, p, causal, snoise) IN
    IF ~ReshapeOk(self, a)
    THEN Failed("reshape", past1, upd, kernel, w1)
    ELSE
    LET r == Reshape(self, a) IN
    IF ~LinearOk(self.hidden_size, r)
    THEN Failed("linear", past1, upd, kernel, w1)
    ELSE
    [status |-> "ok",
     out |-> OutputDropout(self, is_training, Linear(self.hidden_size, r), onoise),
     past |-> past1, updates |-> upd, kernel |-> kernel, widths |-> w1]

(************************ GraniteMoeHybridMambaLayer ***********************)
\* __init__ hands BambaConfig(config) and layer_idx to BambaMixer; the layer's
\* label is not looked at.
MambaLayer_init(cfg, layer_idx) == [layer_idx |-> layer_idx]

\* The recurrent mixer as the decoder layer uses it: it takes the layer's
\* keyword arguments and returns (hidden states of the input's shape,
\* attention weights, present cache).
Mamba_forward(hidden_states) ==
    [hidden_states EXCEPT
        !.data = [p \in 1 .. Len(hidden_states.data) |->
                    11 * hidden_states.data[p] + 5]]

(************************ GraniteMoeHybridDecoderLayer *********************)
MLALabel == "multihead_latent_attention"

\* config.layer_types[layer_idx]: a Python list index, from 0.
LabelOk(cfg, layer_idx) == layer_idx < Len(cfg.layer_types)

\* a dispatch on another label
MixerFor_OtherLabel(label) == IF label = "attention" THEN "mla" ELSE "mamba"

\* line 144: the mixer constructed for a label.
MixerFor(label) == IF label = MLALabel THEN "mla" ELSE "mamba"

\* a shared MLP constructed whatever the configuration
SharedMlpFor_Always(cfg) == TRUE

\* line 142
SharedMlpFor(cfg) == cfg.shared_intermediate_size # 0

DecoderLayer_init(cfg, layer_idx) ==
    [layer_idx |-> layer_idx,
     has_shared_mlp |-> SharedMlpFor(cfg),
     mixer |-> MixerFor(cfg.layer_types[layer_idx + 1]),
     mixer_layer_idx |->
        IF MixerFor(cfg.layer_types[layer_idx + 1]) = "mla"
        THEN MLA_init(cfg, layer_idx).layer_idx
        ELSE MambaLayer_init(cfg, layer_idx).layer_idx,
     residual_multiplier |-> cfg.residual_multiplier]

\* GraniteMoeHybridModel.__init__: one decoder layer per index of
\* range(config.num_hidden_layers); a failing constructor fails the model.
Model_init(cfg) ==
    IF \E i \in 0 .. (cfg.num_hidden_layers - 1) : ~LabelOk(cfg, i)
    THEN [status |-> "IndexError", layers |-> <<>>]
    ELSE [status |-> "ok",
          layers |-> [i \in 1 .. cfg.num_hidden_layers |->
                        DecoderLayer_init(cfg, i - 1)]]

NotBuilt == [status |-> "none", layers |-> <<>>]

\* sub-modules of the base decoder layer: maps of each position, which
\* keep the shape
InputLayerNorm(x) ==
    [x EXCEPT !.data = [p \in 1 .. Len(x.data) |-> 2 * x.data[p] + 1]]

PostAttentionLayerNorm(x) ==
    [x EXCEPT !.data = [p \in 1 .. Len(x.data) |-> 3 * x.data[p] + 1]]

BlockSparseMoe(x) ==
    [x EXCEPT !.data = [p \in 1 .. Len(x.data) |-> 5 * x.data[p] + 2]]

SharedMlp(x) ==
    [x EXCEPT !.data = [p \in 1 .. Len(x.data) |-> 7 * x.data[p] + 3]]

\* a + b, elementwise
Add(a, b) ==
    [a EXCEPT !.data = [p \in 1 .. Len(a.data) |-> a.data[p] + b.data[p]]]

\* residual + hidden_states * multiplier
Residual(residual, h, mult) ==
    [residual EXCEPT !.data = [p \in 1 .. Len(residual.data) |->
                                  residual.data[p] + h.data[p] * mult]]

\* the keyword arguments of the call of self.self_attn, lines 189-199
MixerCallKeywords(kwargs) ==
    {"hidden_states", "attention_mask", "position_ids", "past_key_value",
     "output_attentions", "use_cache", "cache_position", "position_embeddings"}
    \cup kwargs

\* the parameters of GraniteMultiHeadLatentAttention.forward, lines 71-74;
\* it declares no **kwargs
MLAForwardParams == {"hidden_states", "past_key_values", "attention_mask"}

\* a Python call with keywords only: every keyword must name a parameter
MLACallAccepted(keywords) == keywords \subseteq MLAForwardParams

\* self.self_attn: the sub-module forward calls
DispatchMixer(layer, hidden_states) == layer.mixer

\* lines 189-199: the call of the mixer and the 3-value unpacking.  The
\* latent attention block returns one tensor; unpacking a tensor iterates
\* over its first axis.
MixerCall(cfg, layer, h, attention_mask, is_training, kwargs) ==
    IF DispatchMixer(layer, h) = "mla"
    THEN IF ~MLACallAccepted(MixerCallKeywords(kwargs))
         THEN [status |-> "TypeError", out |-> EmptyTensor]
         ELSE LET r == MLA_forward(MLA_init(cfg, layer.mixer_layer_idx), is_training,
                                   h, <<>>, FALSE, attention_mask, 0, 0)
              IN  IF r.status # "ok"
                  THEN [status |-> r.status, out |-> EmptyTensor]
                  ELSE IF r.out.batch # 3
                       THEN [status |-> "ValueError", out |-> EmptyTensor]
                       ELSE [status |-> "ok",
                             out |-> [h EXCEPT !.data = [p \in 1 .. Len(h.data) |-> 0]]]
    ELSE [status |-> "ok", out |-> Mamba_forward(h)]

\* lines 204-218: the feed-forward stage on the post-normalisation states h
FeedForward(layer, h) ==
    IF ~layer.has_shared_mlp
    THEN [out |-> BlockSparseMoe(h),
          moe_called |-> TRUE, moe_in |-> h,
          mlp_called |-> FALSE, mlp_in |-> EmptyTensor]
    ELSE [out |-> Add(BlockSparseMoe(h), SharedMlp(h)),
          moe_called |-> TRUE, moe_in |-> h,
          mlp_called |-> TRUE, mlp_in |-> h]

NoFeedForward ==
    [out |-> EmptyTensor, moe_called |-> FALSE, moe_in |-> EmptyTensor,
     mlp_called |-> FALSE, mlp_in |-> EmptyTensor]

\* outputs that carry the present cache whatever use_cache
LayerOutputs_CacheAlways(output_attentions, use_cache, output_router_logits) ==
    <<"hidden_states">>
    \o (IF output_attentions THEN <<"self_attn_weights">> ELSE <<>>)
    \o <<"present_key_value">>
    \o (IF output_router_logits THEN <<"router_logits">> ELSE <<>>)

\* lines 220-231
LayerOutputs(output_attentions, use_cache, output_router_logits) ==
    <<"hidden_states">>
    \o (IF output_attentions THEN <<"self_attn_weights">> ELSE <<>>)
    \o (IF use_cache THEN <<"present_key_value">> ELSE <<>>)
    \o (IF output_router_logits THEN <<"router_logits">> ELSE <<>>)

\* GraniteMoeHybridDecoderLayer.forward, called without a cache
DecoderLayer_forward(cfg, layer, is_training, hidden_states, attention_mask, flags, kwargs) ==
    LET residual == hidden_states
        h1 == InputLayerNorm(hidden_states)
        m == MixerCall(cfg, layer, h1, attention_mask, is_training, kwargs)
    IN  IF m.status # "ok"
        THEN [status |-> m.status, mixer |-> DispatchMixer(layer, h1),
              hidden |-> EmptyTensor, ff |-> NoFeedForward, outputs |-> <<>>]
        ELSE
        LET h2 == Residual(residual, m.out, layer.residual_multiplier)
            h3 == PostAttentionLayerNorm(h2)
            ff == FeedForward(layer, h3)
            h4 == Residual(h2, ff.out, layer.residual_multiplier)
        IN  [status |-> "ok", mixer |-> DispatchMixer(layer, h1),
             hidden |-> h4, ff |-> ff,
             outputs |-> LayerOutputs(flags[1], flags[2], flags[3])]

NoLayerCall ==
    [called |-> FALSE, layer |-> 0, x |-> EmptyTensor, flags |-> <<FALSE, FALSE, FALSE>>,
     status |-> "none", mixer |-> "none", hidden |-> EmptyTensor,
     ff |-> NoFeedForward, outputs |-> <<>>]

(***************************** inputs **************************************)
Noise == {0, 1}

TokenSeqs(vals, maxlen) == UNION {[1 .. n -> vals] : n \in 1 .. maxlen}

Hidden(b, w, toks) == [batch |-> b, width |-> w, data |-> toks]

OnesMask(r, c) ==
    [given |-> TRUE, rows |-> r, cols |-> c, allowed |-> (1 .. r) \X (1 .. c)]

TrilMask(r, c) ==
    [given |-> TRUE, rows |-> r, cols |-> c,
     allowed |-> {ij \in (1 .. r) \X (1 .. c) : ij[2] <= ij[1]}]

EmptyCache(ids) == [i \in ids |-> [key |-> EmptyTensor, value |-> EmptyTensor]]

CachedLen(past, layer_idx) == Len(past[layer_idx].key.data)

NoCall ==
    [called |-> FALSE, blk |-> 0, x |-> EmptyTensor, mask |-> NoMask,
     use_past |-> FALSE, training |-> FALSE, cached_before |-> 0,
     status |-> "none", out |-> EmptyTensor, updates |-> 0, kernel |-> NoKernel,
     widths |-> NoWidths, repeats |-> FALSE, prev_ok |-> FALSE, agrees |-> FALSE]

BaseConfig ==
    [hidden_size |-> 4, num_attention_heads |-> 2,
     mla_query_comp_size |-> 2, mla_key_value_comp_size |-> 1,
     attention_multiplier |-> [given |-> FALSE, v |-> 0],
     mla_softmax_dropout |-> 0, mla_dropout |-> 0,
     layer_types |-> <<MLALabel>>, num_hidden_layers |-> 1,
     shared_intermediate_size |-> 0, residual_multiplier |-> 1]

(***************************** actions *************************************)
\* nn.Module.train(mode) / eval(): the flag line 102 reads
SetTraining(mode) ==
    /\ training # mode
    /\ training' = mode
    /\ UNCHANGED <<config, cache, last, model, lastLayer>>

\* the dropout draws a call may make: none where dropout is off
SoftmaxNoise(self, is_training) ==
    IF KernelDropoutP(self, is_training) = 0 THEN {0} ELSE Noise

OutputNoise(self, is_training) ==
    IF self.dropout_is_identity \/ ~is_training THEN {0} ELSE Noise

\* positions held by the cache, all layers together
CacheTotal(past) ==
    LET RECURSIVE Sum(_)
        Sum(S) == IF S = {} THEN 0
                  ELSE LET i == CHOOSE i \in S : TRUE
                       IN  Len(past[i].key.data) + Sum(S \ {i})
    IN  Sum(DOMAIN past)

\* one call of the latent attention block of layer index blk.  repeats: the
\* call has the arguments of the call before it, both in evaluation mode;
\* prev_ok: the call before it returned; agrees: it ended as the call before
\* it did, with the same output.
AttnForward(blk, x, mask, use_past) ==
    /\ use_past => CacheTotal(cache) + Len(x.data) <= MaxCacheLen
    /\ \E snoise \in SoftmaxNoise(MLA_init(config, blk), training),
          onoise \in OutputNoise(MLA_init(config, blk), training) :
         \E r \in {MLA_forward(MLA_init(config, blk), training, x, cache, use_past,
                                mask, snoise, onoise)} :
             /\ cache' = r.past
             /\ last' = [called |-> TRUE, blk |-> blk, x |-> x, mask |-> mask,
                         use_past |-> use_past, training |-> training,
                         cached_before |-> CachedLen(cache, blk),
                         status |-> r.status, out |-> r.out, updates |-> r.updates,
                         kernel |-> r.kernel, widths |-> r.widths,
                         repeats |-> /\ last.called /\ ~last.training /\ ~training
                                     /\ last.blk = blk /\ last.x = x
                                     /\ last.mask = mask /\ last.use_past = use_past,
                         prev_ok |-> last.status = "ok",
                         agrees |-> /\ last.called
                                    /\ last.status = r.status /\ last.out = r.out]
    /\ UNCHANGED <<config, training, model, lastLayer>>

\* GraniteMoeHybridModel(config)
BuildModel ==
    /\ model.status = "none"
    /\ model' = Model_init(config)
    /\ UNCHANGED <<config, training, cache, last, lastLayer>>

\* one call of the decoder layer at position i (layer index i - 1)
LayerForward(i, x, mask, flags, kwargs) ==
    /\ model.status = "ok"
    /\ i \in 1 .. Len(model.layers)
    /\ \E r \in {DecoderLayer_forward(config, model.layers[i], training, x, mask,
                                      flags, kwargs)} :
           lastLayer' = [called |-> TRUE, layer |-> i - 1, x |-> x, flags |-> flags,
                         status |-> r.status, mixer |-> r.mixer, hidden |-> r.hidden,
                         ff |-> r.ff, outputs |-> r.outputs]
    /\ UNCHANGED <<config, training, cache, last, model>>

(************************ specifications ***********************************)
AttnBlocks == {0, 1}

Idle ==
    /\ training = TRUE
    /\ last = NoCall
    /\ model = NotBuilt
    /\ lastLayer = NoLayerCall

\* one attention block, dropout configured or not, train() / eval()
AttnConfigs ==
    {[BaseConfig EXCEPT !.mla_softmax_dropout = sp, !.mla_dropout = op] :
        sp \in {0, 10}, op \in {0, 10}}

AttnMasks == {NoMask, OnesMask(1, 1), OnesMask(1, 2), TrilMask(2, 2)}

AttnInputs == TokenSeqs({1}, MaxChunk) \cup {<<2>>}

InitAttn ==
    /\ config \in AttnConfigs
    /\ cache = EmptyCache(AttnBlocks)
    /\ Idle

NextAttn ==
    \/ \E mode \in BOOLEAN : SetTraining(mode)
    \/ \E toks \in AttnInputs, mask \in AttnMasks,
          use_past \in BOOLEAN :
            AttnForward(0, Hidden(1, config.hidden_size, toks), mask, use_past)

SpecAttn == InitAttn /\ [][NextAttn]_vars

\* two blocks, of layer indices 0 and 1, sharing one cache
CacheConfigs ==
    {BaseConfig, [BaseConfig EXCEPT !.attention_multiplier = [given |-> TRUE, v |-> 1]]}

InitCache ==
    /\ config \in CacheConfigs
    /\ cache = EmptyCache(AttnBlocks)
    /\ Idle

NextCache ==
    \E blk \in AttnBlocks, toks \in TokenSeqs(TokenVals, MaxChunk),
       use_past \in BOOLEAN :
         AttnForward(blk, Hidden(1, config.hidden_size, toks), NoMask, use_past)

SpecCache == InitCache /\ [][NextCache]_vars

\* one block under every size configuration
ShapeConfigs ==
    {[BaseConfig EXCEPT !.hidden_size = h, !.num_attention_heads = n,
                        !.mla_query_comp_size = q, !.mla_key_value_comp_size = kv] :
        h \in {4, 6}, n \in {2, 4}, q \in {1, 2}, kv \in {1, 3}}

InitShape ==
    /\ config \in ShapeConfigs
    /\ cache = EmptyCache(AttnBlocks)
    /\ Idle

NextShape ==
    \E b \in 1 .. MaxBatch, toks \in TokenSeqs({1}, MaxChunk),
       mask \in {NoMask, OnesMask(1, 1)}, use_past \in BOOLEAN :
         AttnForward(0, Hidden(b, config.hidden_size, toks), mask, use_past)

SpecShape == InitShape /\ [][NextShape]_vars

\* the model stack: construction, then calls of its layers
Labels == {MLALabel, "mamba", "bogus"}

LayerConfigs ==
    UNION {{[BaseConfig EXCEPT !.num_hidden_layers = n, !.layer_types = lt,
                               !.shared_intermediate_size = s] :
              lt \in [1 .. (n - 1) -> Labels] \cup [1 .. n -> Labels], s \in {0, 8}} :
           n \in 1 .. MaxLayers}

LayerInputs == {<<1>>, <<1, 2>>}

InitLayer ==
    /\ config \in LayerConfigs
    /\ cache = EmptyCache(AttnBlocks)
    /\ Idle

NextLayer ==
    \/ BuildModel
    \/ \E i \in 1 .. MaxLayers, toks \in LayerInputs, flags \in BOOLEAN \X BOOLEAN \X BOOLEAN :
         LayerForward(i, Hidden(1, config.hidden_size, toks), NoMask, flags, {})

SpecLayer == InitLayer /\ [][NextLayer]_vars

(***************************** claims **************************************)
\* C1 (as claimed): every call of a decoder layer completes and returns
\* hidden states of the shape of its input, whichever mixer the layer holds.
C1_ForwardCompletes ==
    lastLayer.called =>
        /\ lastLayer.status = "ok"
        /\ Shape(lastLayer.hidden) = Shape(lastLayer.x)

\* C2 (as claimed): in evaluation mode two successive calls with the same
\* arguments (hidden states, mask, cache argument) that both return, return
\* the same output.
C2_RepeatAgrees ==
    (last.repeats /\ last.prev_ok /\ last.status = "ok") => last.agrees

\* C2 (amended): in evaluation mode a call that passes no cache and has the
\* arguments of the call before it ends as that call did, with the same
\* output.
C2_RepeatAgreesNoCache == (last.repeats /\ ~last.use_past) => last.agrees

C2_Witness ==
    /\ last.repeats /\ ~last.use_past /\ last.agrees
    /\ last.status = "ok"
    /\ config.mla_softmax_dropout > 0 /\ config.mla_dropout > 0
    /\ last.mask.given

\* C3: the kernel is asked for implicit causal masking exactly when no
\* explicit mask is given, and it is handed the mask the caller gave.
C3_CausalIffNoMask ==
    last.kernel.called =>
        /\ last.kernel.is_causal <=> ~last.mask.given
        /\ last.kernel.mask = last.mask

C3_Witness ==
    /\ last.kernel.called /\ last.status = "ok"
    /\ last.mask.given /\ ~last.kernel.is_causal
    /\ last.kernel.mask.rows = 2

\* C4: the feed-forward stage always runs the MoE block; with
\* shared_intermediate_size = 0 its output is the MoE output alone, otherwise
\* the MoE output plus the shared MLP of the states the MoE block was fed.
C4_FeedForward ==
    (lastLayer.called /\ lastLayer.status = "ok") =>
        LET ff == lastLayer.ff IN
        /\ ff.moe_called
        /\ IF config.shared_intermediate_size = 0
           THEN /\ ~ff.mlp_called
                /\ ff.out = BlockSparseMoe(ff.moe_in)
           ELSE /\ ff.mlp_called
                /\ ff.mlp_in = ff.moe_in
                /\ ff.out = Add(BlockSparseMoe(ff.moe_in), SharedMlp(ff.mlp_in))

C4_Witness ==
    /\ lastLayer.called /\ lastLayer.status = "ok"
    /\ config.shared_intermediate_size = 0
    /\ ~lastLayer.ff.mlp_called /\ lastLayer.ff.moe_called
    /\ Len(lastLayer.x.data) = 2

\* the widths and the output shape C5 states
C5_Shapes ==
    /\ last.status = "ok"
    /\ last.widths.down = config.mla_query_comp_size + 2 * config.mla_key_value_comp_size
    /\ last.widths.latents = <<config.mla_query_comp_size,
                               config.mla_key_value_comp_size,
                               config.mla_key_value_comp_size>>
    /\ last.widths.up = <<config.hidden_size, config.hidden_size, config.hidden_size>>
    /\ Shape(last.out) = Shape(last.x)

\* C5 (as claimed): for every hidden size, head count and pair of
\* compression sizes, a call whose input fits the cache yields the latent
\* widths (q, kv, kv), up-projections of width hidden_size and an output of
\* the shape of the input.
C5_EverySize == (last.called /\ last.status # "cat") => C5_Shapes

\* C5 (amended): the same, for every hidden size that is a multiple of the
\* head count.
C5_DivisibleSize ==
    (/\ last.called /\ last.status # "cat"
     /\ config.hidden_size % config.num_attention_heads = 0) => C5_Shapes

C5_Witness ==
    /\ last.called /\ C5_Shapes
    /\ config.mla_query_comp_size # config.mla_key_value_comp_size
    /\ last.use_past /\ last.cached_before > 0
    /\ last.x.batch = 2

\* C6: a returning call of the decoder layer yields the hidden states, then
\* one element per true flag, in the order attention weights, present
\* cache, router logits.
C6_Outputs ==
    (lastLayer.called /\ lastLayer.status = "ok") =>
        LET all == <<"hidden_states", "self_attn_weights", "present_key_value",
                     "router_logits">>
            want == {1} \cup {k + 1 : k \in {k \in 1 .. 3 : lastLayer.flags[k]}}
            out == lastLayer.outputs
        IN  /\ Len(out) = Cardinality(want)
            /\ out[1] = "hidden_states"
            /\ \A k \in want : \E p \in 1 .. Len(out) : out[p] = all[k]
            /\ \A p, r \in 1 .. Len(out) :
                  p < r => \E k, l \in want : k < l /\ out[p] = all[k] /\ out[r] = all[l]

C6_Witness ==
    /\ lastLayer.called /\ lastLayer.status = "ok"
    /\ lastLayer.flags = <<TRUE, FALSE, TRUE>>
    /\ lastLayer.outputs = <<"hidden_states", "self_attn_weights", "router_logits">>

\* the latents of the positions a call feeds
C7_Latents(part, x) == [p \in 1 .. Len(x.data) |-> [part |-> part, tok |-> x.data[p]]]

\* C7: a call that passes the cache makes one update, of the entry of its
\* own layer index only, appending the call's key and value latents to it;
\* the kernel then sees every cached position.  A call without a cache
\* stores nothing and the kernel sees the call's own positions.
C7_Step ==
    (cache' # cache \/ last' # last) =>
        LET c == last' IN
        IF c.use_past
        THEN /\ c.updates = 1
             /\ \A other \in DOMAIN cache \ {c.blk} : cache'[other] = cache[other]
             /\ cache'[c.blk].key.data
                   = cache[c.blk].key.data \o C7_Latents("key", c.x)
             /\ cache'[c.blk].value.data
                   = cache[c.blk].value.data \o C7_Latents("value", c.x)
             /\ c.kernel.called /\ c.kernel.L = Len(c.x.data)
             /\ c.kernel.S = Len(cache[c.blk].key.data) + Len(c.x.data)
        ELSE /\ c.updates = 0
             /\ cache' = cache
             /\ c.kernel.called /\ c.kernel.L = Len(c.x.data)
             /\ c.kernel.S = Len(c.x.data)

C7_CacheAppend == [][C7_Step]_vars

C7_Witness ==
    /\ last.called /\ last.use_past /\ last.updates = 1
    /\ last.blk = 1 /\ last.cached_before > 0
    /\ CachedLen(cache, 0) > 0
    /\ cache[1].key.data # cache[0].key.data

ValidLabels == {MLALabel, "mamba"}

\* C8 (as claimed): a model is constructed only from valid mixer labels.
C8_InvalidLabelFails ==
    model.status = "ok" =>
        \A i \in 1 .. config.num_hidden_layers : config.layer_types[i] \in ValidLabels

\* C9: a constructed model holds num_hidden_layers layers, the layer at
\* position i with layer index i and the latent attention mixer exactly for
\* the label "multihead_latent_attention", the recurrent mixer otherwise;
\* the layers never change after construction and every call of a layer
\* goes to the mixer constructed for it.
C9_Layers ==
    /\ model.status = "ok" =>
          /\ Len(model.layers) = config.num_hidden_layers
          /\ \A i \in 1 .. Len(model.layers) :
                /\ model.layers[i].layer_idx = i - 1
                /\ model.layers[i].mixer_layer_idx = i - 1
                /\ model.layers[i].mixer =
                      (IF config.layer_types[i] = "multihead_latent_attention"
                       THEN "mla" ELSE "mamba")
    /\ lastLayer.called =>
          /\ model.status = "ok"
          /\ lastLayer.mixer =
                (IF config.layer_types[lastLayer.layer + 1] = "multihead_latent_attention"
                 THEN "mla" ELSE "mamba")

C9_MixerFixed ==
    /\ []C9_Layers
    /\ [][model.status = "ok" => model' = model]_vars

C9_Witness ==
    /\ model.status = "ok" /\ Len(model.layers) = 2
    /\ model.layers[1].mixer = "mamba" /\ model.layers[2].mixer = "mla"
    /\ lastLayer.called /\ lastLayer.layer = 1 /\ lastLayer.mixer = "mla"

\* C10 (as claimed): with no explicit mask and P positions cached before
\* the call, the query at offset i sees exactly the keys 1 .. P + i.
C10_SeesCachedKeys ==
    (last.called /\ last.kernel.called /\ ~last.mask.given) =>
        LET P == IF last.use_past THEN last.cached_before ELSE 0 IN
        \A i \in 1 .. last.kernel.L : last.kernel.visible[i] = 1 .. (P + i)

====
